---- MODULE Spec2Model ----
(***************************************************************************)
(* helmt: the chart-processing pipeline of pkg/helmt/helmt.go.             *)
(*                                                                         *)
(* HelmTemplate reads and validates a descriptor, probes the helm version, *)
(* fetches the chart into a temporary directory, optionally removes the    *)
(* previous output, renders the chart and optionally writes a              *)
(* kustomization.yaml.  Strings are sequences of one-character strings, so *)
(* that joining, substring search and replacement are computed, not        *)
(* assumed.                                                                *)
(***************************************************************************)
EXTENDS Integers, Sequences, FiniteSets, TLC

VARIABLES
    pc,             \* position inside HelmTemplate (the stage about to run)
    file,           \* the descriptor as yaml.Unmarshal decodes it
    clean,          \* HelmTemplate's clean argument
    username,       \* HelmTemplate's username argument
    password,       \* HelmTemplate's password argument
    viperPassword,  \* viper.GetString("password")
    chart,          \* the *HelmChart readParameters returned
    chartFile,      \* the path fetch returned
    result,         \* the error HelmTemplate returned (Pending before return)
    stages,         \* the stages entered so far, each with the error it returned
    calls,          \* the hook invocations so far (execute, tempDir, ...)
    log,            \* the lines execCommand printed
    removed,        \* the paths handed to os.RemoveAll
    created,        \* the paths handed to os.Create
    directory,      \* generateKustomizationCommand's argument (walk model)
    tree,           \* the entries below directory (walk model)
    kust,           \* the content of directory/kustomization.yaml (walk model)
    kustErr,        \* what the last generateKustomizationCommand returned
    streak          \* successful runs since the tree last changed (capped)

pipelineVars == <<pc, file, clean, username, password, viperPassword, chart,
                  chartFile, result, stages, calls, log, removed, created>>
walkVars == <<directory, tree, kust, kustErr, streak>>
vars == <<pc, file, clean, username, password, viperPassword, chart,
          chartFile, result, stages, calls, log, removed, created,
          directory, tree, kust, kustErr, streak>>

----------------------------------------------------------------------------
(* Bounds of the model.                                                    *)
MaxValues == 2
MaxApiVersions == 2
MaxContent == 2
MaxEntries == 3
MaxStreak == 2

----------------------------------------------------------------------------
(* String literals of the source, as character sequences.                  *)
S_helm == <<"h", "e", "l", "m">>
S_version == <<"v", "e", "r", "s", "i", "o", "n">>
S_template == <<"t", "e", "m", "p", "l", "a", "t", "e">>
S_fetch == <<"f", "e", "t", "c", "h">>
S_namespace == <<"-", "-", "n", "a", "m", "e", "s", "p", "a", "c", "e">>
S_include_crds == <<"-", "-", "i", "n", "c", "l", "u", "d", "e", "-", "c", "r", "d", "s">>
S_skip_tests == <<"-", "-", "s", "k", "i", "p", "-", "t", "e", "s", "t", "s">>
S_values == <<"-", "-", "v", "a", "l", "u", "e", "s">>
S_output_dir == <<"-", "-", "o", "u", "t", "p", "u", "t", "-", "d", "i", "r">>
S_api_versions == <<"-", "-", "a", "p", "i", "-", "v", "e", "r", "s", "i", "o", "n", "s">>
S_repo == <<"-", "-", "r", "e", "p", "o">>
S_version_flag == <<"-", "-", "v", "e", "r", "s", "i", "o", "n">>
S_destination == <<"-", "-", "d", "e", "s", "t", "i", "n", "a", "t", "i", "o", "n">>
S_username == <<"-", "-", "u", "s", "e", "r", "n", "a", "m", "e">>
S_password == <<"-", "-", "p", "a", "s", "s", "w", "o", "r", "d">>
S_password_sp == <<"-", "-", "p", "a", "s", "s", "w", "o", "r", "d", " ">>
S_mask == <<"-", "-", "p", "a", "s", "s", "w", "o", "r", "d", " ", "*", "*", "*", "*", "*">>
S_dot == <<".">>
S_kustomization_yaml == <<"k", "u", "s", "t", "o", "m", "i", "z", "a", "t", "i", "o", "n", ".", "y", "a", "m", "l">>
S_nginx == <<"n", "g", "i", "n", "x">>
S_1_2_3 == <<"1", ".", "2", ".", "3">>
S_example_repo == <<"h", "t", "t", "p", "s", ":", "/", "/", "e", "x", "a", "m", "p", "l", "e", "/", "c", "h", "a", "r", "t", "s">>
S_web == <<"w", "e", "b">>
S_header_apiVersion == <<"a", "p", "i", "V", "e", "r", "s", "i", "o", "n", ":", " ", "k", "u", "s", "t", "o", "m", "i", "z", "e", ".", "c", "o", "n", "f", "i", "g", ".", "k", "8", "s", ".", "i", "o", "/", "v", "1", "b", "e", "t", "a", "1">>
S_header_kind == <<"k", "i", "n", "d", ":", " ", "K", "u", "s", "t", "o", "m", "i", "z", "a", "t", "i", "o", "n">>
S_header_resources == <<"r", "e", "s", "o", "u", "r", "c", "e", "s", ":">>
S_item == <<" ", " ", "-", " ">>
S_a_yaml == <<"a", ".", "y", "a", "m", "l">>
S_b_yaml == <<"b", ".", "y", "a", "m", "l">>
S_sub == <<"s", "u", "b">>
S_space == <<" ">>
S_slash == <<"/">>
S_empty == <<>>
S_dotdot == <<".", ".">>

----------------------------------------------------------------------------
(* strings and path helpers of the Go standard library, as the source uses *)
(* them.                                                                   *)

RECURSIVE Join(_, _)
\* strings.Join(elems, sep)
Join(elems, sep) ==
    IF elems = <<>> THEN <<>>
    ELSE IF Len(elems) = 1 THEN elems[1]
    ELSE elems[1] \o sep \o Join(Tail(elems), sep)

HasPrefix(s, p) == Len(s) >= Len(p) /\ SubSeq(s, 1, Len(p)) = p

\* strings.Contains(s, sub)
Contains(s, sub) ==
    \E i \in 0..(Len(s) - Len(sub)) : SubSeq(s, i + 1, i + Len(sub)) = sub

RECURSIVE ReplaceAll(_, _, _)
\* strings.ReplaceAll(s, old, new) for a non-empty old: non-overlapping
\* occurrences, left to right
ReplaceAll(s, old, new) ==
    IF ~Contains(s, old) THEN s
    ELSE LET i == CHOOSE k \in 1..Len(s) :
                      /\ SubSeq(s, k, k + Len(old) - 1) = old
                      /\ \A j \in 1..(k - 1) : SubSeq(s, j, j + Len(old) - 1) # old
         IN SubSeq(s, 1, i - 1) \o new
               \o ReplaceAll(SubSeq(s, i + Len(old), Len(s)), old, new)

RECURSIVE Split(_, _)
\* the components of s between occurrences of the character c
Split(s, c) ==
    IF \A i \in 1..Len(s) : s[i] # c THEN <<s>>
    ELSE LET i == CHOOSE k \in 1..Len(s) :
                      s[k] = c /\ \A j \in 1..(k - 1) : s[j] # c
         IN <<SubSeq(s, 1, i - 1)>> \o Split(SubSeq(s, i + 1, Len(s)), c)

RECURSIVE CleanComponents(_, _, _)
\* path.Clean's pass over the components: "" and "." are dropped, ".."
\* removes the component before it (kept when there is none and the path
\* is not rooted)
CleanComponents(comps, out, rooted) ==
    IF comps = <<>> THEN out
    ELSE LET c == Head(comps) IN
         IF c = S_empty \/ c = S_dot
         THEN CleanComponents(Tail(comps), out, rooted)
         ELSE IF c = S_dotdot
         THEN IF out # <<>> /\ out[Len(out)] # S_dotdot
              THEN CleanComponents(Tail(comps), SubSeq(out, 1, Len(out) - 1), rooted)
              ELSE IF rooted
                   THEN CleanComponents(Tail(comps), out, rooted)
                   ELSE CleanComponents(Tail(comps), Append(out, c), rooted)
         ELSE CleanComponents(Tail(comps), Append(out, c), rooted)

\* path.Clean(p)
Clean(p) ==
    IF p = S_empty THEN S_dot
    ELSE LET rooted == p[1] = "/"
             body == Join(CleanComponents(Split(p, "/"), <<>>, rooted), S_slash)
         IN IF rooted THEN S_slash \o body
            ELSE IF body = S_empty THEN S_dot ELSE body

\* path.Join(a, b) and filepath.Join(a, b): empty elements are ignored, the
\* rest joined with "/" and cleaned
PathJoin(a, b) ==
    LET elems == SelectSeq(<<a, b>>, LAMBDA e : e # S_empty)
    IN IF elems = <<>> THEN S_empty ELSE Clean(Join(elems, S_slash))

----------------------------------------------------------------------------
(* Errors.  Every error value has the same shape: its kind, the fields a   *)
(* validation error enumerates, and the directory an error message names.  *)

Err(kind, fields, dir) == [kind |-> kind, fields |-> fields, dir |-> dir]
Nil == Err("nil", {}, S_empty)
Pending == Err("pending", {}, S_empty)

----------------------------------------------------------------------------
(* The descriptor.                                                         *)

\* type HelmChart, with the zero value of every field yaml leaves unset
HelmChart(c, v, r, n, ns, vals, skip, gk, od, api) ==
    [Chart |-> c, Version |-> v, Repository |-> r, Name |-> n,
     Namespace |-> ns, Values |-> vals, SkipCRDs |-> skip,
     PostProcess |-> [GenerateKustomization |-> gk],
     OutputDir |-> od, ApiVersions |-> api]

\* the fields tagged validate:"required"
Required == {"Chart", "Version", "Repository", "Name"}

\* validate.Struct with the required tag missing from Name
validateStruct_nameOptional(c) ==
    LET missing == {f \in Required \ {"Name"} : c[f] = S_empty}
    IN IF missing = {} THEN Nil ELSE Err("validation", missing, S_empty)

\* validate.Struct(chart): a required string fails when it is the zero value
validateStruct(c) ==
    LET missing == {f \in Required : c[f] = S_empty}
    IN IF missing = {} THEN Nil ELSE Err("validation", missing, S_empty)

NoChart == HelmChart(S_empty, S_empty, S_empty, S_empty, S_empty, <<>>,
                     FALSE, FALSE, S_empty, <<>>)

\* readParameters(filename): f.read is what ioutil.ReadFile and
\* yaml.Unmarshal make of the file, f.doc the decoded descriptor
readParameters(f) ==
    IF f.read = "unreadable" THEN [chart |-> NoChart, err |-> Err("read", {}, S_empty)]
    ELSE IF f.read = "malformed" THEN [chart |-> NoChart, err |-> Err("yaml", {}, S_empty)]
    ELSE IF validateStruct(f.doc) # Nil
         THEN [chart |-> NoChart, err |-> validateStruct(f.doc)]
         ELSE [chart |-> f.doc, err |-> Nil]

----------------------------------------------------------------------------
(* The process runner.                                                     *)

\* execCommand(name, opts, arg...): the line it prints and the error of
\* command.Run(); ok is whether the subprocess exits with status zero
execCommand(name, arg, ok) ==
    LET joined == Join(arg, S_space)
        args == ReplaceAll(joined, S_password_sp \o viperPassword, S_mask)
    IN [line |-> name \o S_space \o args,
        err |-> IF ok THEN Nil ELSE Err("exit", {}, S_empty)]

\* an invocation of one of the package's hooks, as a test double records
\* it: the hook, its arguments, whether it returned a nil error, and the
\* strings it returned
Call(fn, args, ok, ret) == [fn |-> fn, args |-> args, ok |-> ok, ret |-> ret]

\* HelmVersion()
HelmVersion(ok) ==
    LET run == execCommand(S_helm, <<S_version>>, ok)
    IN [err |-> run.err, calls |-> <<Call("execute", <<S_version>>, ok, <<>>)>>,
        lines |-> <<run.line>>]

----------------------------------------------------------------------------
(* fetch.                                                                  *)

\* the argument list with --password added only inside the username test
fetchArgs_nested(repository, chartId, version, user, pw, d) ==
    LET a0 == <<S_fetch>>
        a1 == a0 \o <<S_repo, repository>>
        a2 == a1 \o <<S_version_flag, version>>
        a3 == a2 \o <<S_destination, d>>
        a4 == IF user # S_empty THEN a3 \o <<S_username, user>> ELSE a3
        a5 == IF user # S_empty /\ pw # S_empty THEN a4 \o <<S_password, pw>> ELSE a4
    IN Append(a5, chartId)

\* the argument list fetch builds (lines 140-150)
fetchArgs(repository, chartId, version, user, pw, d) ==
    LET a0 == <<S_fetch>>
        a1 == a0 \o <<S_repo, repository>>
        a2 == a1 \o <<S_version_flag, version>>
        a3 == a2 \o <<S_destination, d>>
        a4 == IF user # S_empty THEN a3 \o <<S_username, user>> ELSE a3
        a5 == IF pw # S_empty THEN a4 \o <<S_password, pw>> ELSE a4
    IN Append(a5, chartId)

\* the listing test as "len(content) == 0": several entries pass
UnexpectedContent_emptyOnly(content) == Len(content) = 0

\* the test fetch makes of the listing (line 160)
UnexpectedContent(content) == Len(content) # 1

\* fetch(repository, chart, version, username, password).  env is what the
\* outside world answers: whether os.MkdirTemp succeeds and the directory
\* it makes, whether helm exits with zero, whether os.ReadDir succeeds and
\* the names it lists.
fetch(repository, chartId, version, user, pw, env) ==
    IF ~env.tempDirOk
    THEN [path |-> S_empty, err |-> Err("tempdir", {}, S_empty),
          calls |-> <<Call("tempDir", <<>>, FALSE, <<>>)>>, lines |-> <<>>]
    ELSE
    LET d == env.dir
        args == fetchArgs(repository, chartId, version, user, pw, d)
        run == execCommand(S_helm, args, env.runOk)
        c1 == <<Call("tempDir", <<>>, TRUE, <<d>>), Call("execute", args, env.runOk, <<>>)>>
        c2 == Append(c1, Call("dirContent", <<d>>, env.readOk, env.content))
    IN IF run.err # Nil
       THEN [path |-> S_empty, err |-> run.err, calls |-> c1, lines |-> <<run.line>>]
       ELSE IF ~env.readOk
       THEN [path |-> S_empty, err |-> Err("readdir", {}, S_empty),
             calls |-> c2, lines |-> <<run.line>>]
       ELSE IF UnexpectedContent(env.content)
       THEN [path |-> S_empty, err |-> Err("unexpected content", {}, d),
             calls |-> c2, lines |-> <<run.line>>]
       ELSE [path |-> PathJoin(d, env.content[1]), err |-> Nil,
             calls |-> c2, lines |-> <<run.line>>]

----------------------------------------------------------------------------
(* template.                                                               *)

RECURSIVE FlagPairs(_, _)
\* the loops "for _, x := range list { args = append(args, flag, x) }"
FlagPairs(flag, list) ==
    IF list = <<>> THEN <<>>
    ELSE <<flag, Head(list)>> \o FlagPairs(flag, Tail(list))

\* the --output-dir argument template passes (lines 120-124)
ResolvedOutputDir(outputDir) ==
    IF Len(outputDir) > 0 THEN outputDir ELSE S_dot

\* the argument list as the package's earlier revision built it: no
\* --skip-tests, always --output-dir ".", no --api-versions
templateArgs_old(name, chartPath, values, namespace, skipCRDs, outputDir, apiVersions) ==
    LET a0 == <<S_template, name, chartPath>>
        a1 == IF Len(namespace) > 0 THEN a0 \o <<S_namespace, namespace>> ELSE a0
        a2 == IF ~skipCRDs THEN Append(a1, S_include_crds) ELSE a1
        a3 == a2 \o FlagPairs(S_values, values)
    IN a3 \o <<S_output_dir, S_dot>>

\* the argument list template builds (lines 109-129)
templateArgs(name, chartPath, values, namespace, skipCRDs, outputDir, apiVersions) ==
    LET a0 == <<S_template, name, chartPath>>
        a1 == IF Len(namespace) > 0 THEN a0 \o <<S_namespace, namespace>> ELSE a0
        a2 == IF ~skipCRDs THEN Append(a1, S_include_crds) ELSE a1
        a3 == Append(a2, S_skip_tests)
        a4 == a3 \o FlagPairs(S_values, values)
        a5 == a4 \o <<S_output_dir, ResolvedOutputDir(outputDir)>>
        a6 == IF Len(apiVersions) > 0
              THEN a5 \o FlagPairs(S_api_versions, apiVersions) ELSE a5
    IN a6

\* template(name, chart, values, namespace, skipCRDs, outputDir, ApiVersions)
template(name, chartPath, values, namespace, skipCRDs, outputDir, apiVersions, ok) ==
    LET args == templateArgs(name, chartPath, values, namespace, skipCRDs,
                             outputDir, apiVersions)
        run == execCommand(S_helm, args, ok)
    IN [err |-> run.err, calls |-> <<Call("execute", args, ok, <<>>)>>, lines |-> <<run.line>>]

----------------------------------------------------------------------------
(* The optional stages.                                                    *)

\* removeOutputCommand(chart): the path it hands to os.RemoveAll
removeOutputCommand(ch) == ch.Chart

\* the file generateKustomizationCommand(directory) creates (line 195)
KustomizationPath(dir) == PathJoin(dir, S_kustomization_yaml)

\* generateKustomization handed the descriptor's output directory instead
KustomizationDir_outputDir(ch) == IF Len(ch.OutputDir) > 0 THEN ch.OutputDir ELSE S_dot

\* the directory HelmTemplate hands to generateKustomization (line 95)
KustomizationDir(ch) == ch.Chart

----------------------------------------------------------------------------
(* HelmTemplate's control flow: the stage that follows `stage` once it     *)
(* returned err.                                                           *)

\* HelmTemplate with the version probe's error dropped
HelmTemplate_probeIgnored(stage, err, cl, ch) ==
    IF err # Nil /\ stage # "HelmVersion" THEN "done"
    ELSE CASE stage = "readParameters" -> "HelmVersion"
           [] stage = "HelmVersion" -> "fetch"
           [] stage = "fetch" -> IF cl THEN "removeOutput" ELSE "template"
           [] stage = "removeOutput" -> "template"
           [] stage = "template" ->
                IF ch.PostProcess.GenerateKustomization
                THEN "generateKustomization" ELSE "done"
           [] stage = "generateKustomization" -> "done"

\* HelmTemplate with removeOutput called whatever the clean flag says
HelmTemplate_alwaysClean(stage, err, cl, ch) ==
    IF err # Nil THEN "done"
    ELSE CASE stage = "readParameters" -> "HelmVersion"
           [] stage = "HelmVersion" -> "fetch"
           [] stage = "fetch" -> "removeOutput"
           [] stage = "removeOutput" -> "template"
           [] stage = "template" ->
                IF ch.PostProcess.GenerateKustomization
                THEN "generateKustomization" ELSE "done"
           [] stage = "generateKustomization" -> "done"

HelmTemplate(stage, err, cl, ch) ==
    IF err # Nil THEN "done"
    ELSE CASE stage = "readParameters" -> "HelmVersion"
           [] stage = "HelmVersion" -> "fetch"
           [] stage = "fetch" -> IF cl THEN "removeOutput" ELSE "template"
           [] stage = "removeOutput" -> "template"
           [] stage = "template" ->
                IF ch.PostProcess.GenerateKustomization
                THEN "generateKustomization" ELSE "done"
           [] stage = "generateKustomization" -> "done"

----------------------------------------------------------------------------
(* The inputs and the answers of the outside world.                        *)

\* all sequences over S of length at most n
SeqsUpTo(S, n) == UNION {[1..k -> S] : k \in 0..n}

\* the directories os.MkdirTemp may make
TempDirs == {<<"t">>, <<"/", "t", "/", "h">>}

\* the names helm may leave in the temporary directory, in byte order
EntryNames == <<<<"f">>, <<"g">>, <<"h">>, <<"i">>>>

RECURSIVE Pick(_, _)
\* the elements of EntryNames at the indices idx, in index order
Pick(idx, from) ==
    IF from > Len(EntryNames) THEN <<>>
    ELSE IF from \in idx THEN <<EntryNames[from]>> \o Pick(idx, from + 1)
    ELSE Pick(idx, from + 1)

\* dirContentCommand(dir): what os.ReadDir may list, sorted by name
dirContentCommand ==
    {Pick(idx, 1) : idx \in {I \in SUBSET (1..Len(EntryNames)) :
                                 Cardinality(I) <= MaxContent}}

\* what the outside world may answer to one fetch
FetchEnvs ==
    {[tempDirOk |-> FALSE, dir |-> S_empty, runOk |-> FALSE, readOk |-> FALSE,
      content |-> <<>>]}
    \cup {[tempDirOk |-> TRUE, dir |-> d, runOk |-> FALSE, readOk |-> FALSE,
           content |-> <<>>] : d \in TempDirs}
    \cup {[tempDirOk |-> TRUE, dir |-> d, runOk |-> TRUE, readOk |-> FALSE,
           content |-> <<>>] : d \in TempDirs}
    \cup {[tempDirOk |-> TRUE, dir |-> d, runOk |-> TRUE, readOk |-> TRUE,
           content |-> c] : d \in TempDirs, c \in dirContentCommand}

----------------------------------------------------------------------------
(* The pipeline, one action per stage of HelmTemplate.                     *)

\* a stage returned: record it, and go where HelmTemplate goes next
Return(stage, err, ch, newCalls, newLines) ==
    /\ stages' = Append(stages, [stage |-> stage, err |-> err])
    /\ calls' = calls \o newCalls
    /\ log' = log \o newLines
    /\ pc' = HelmTemplate(stage, err, clean, ch)
    /\ result' = IF HelmTemplate(stage, err, clean, ch) = "done" THEN err ELSE Pending

ReadParameters ==
    /\ pc = "readParameters"
    /\ \E r \in {readParameters(file)} :
       /\ chart' = r.chart
       /\ Return("readParameters", r.err, r.chart, <<>>, <<>>)
    /\ UNCHANGED <<file, clean, username, password, viperPassword, chartFile,
                   removed, created>>
    /\ UNCHANGED walkVars

Version ==
    /\ pc = "HelmVersion"
    /\ \E ok \in BOOLEAN :
       \E r \in {HelmVersion(ok)} :
         Return("HelmVersion", r.err, chart, r.calls, r.lines)
    /\ UNCHANGED <<file, clean, username, password, viperPassword, chart,
                   chartFile, removed, created>>
    /\ UNCHANGED walkVars

Fetch ==
    /\ pc = "fetch"
    /\ \E env \in FetchEnvs :
       \E r \in {fetch(chart.Repository, chart.Chart, chart.Version,
                      username, password, env)} :
         /\ chartFile' = r.path
         /\ Return("fetch", r.err, chart, r.calls, r.lines)
    /\ UNCHANGED <<file, clean, username, password, viperPassword, chart,
                   removed, created>>
    /\ UNCHANGED walkVars

RemoveOutput ==
    /\ pc = "removeOutput"
    /\ \E ok \in BOOLEAN :
         /\ removed' = removed \cup {removeOutputCommand(chart)}
         /\ Return("removeOutput", IF ok THEN Nil ELSE Err("remove", {}, S_empty),
                   chart, <<Call("removeOutput", <<chart.Chart>>, ok, <<>>)>>, <<>>)
    /\ UNCHANGED <<file, clean, username, password, viperPassword, chart,
                   chartFile, created>>
    /\ UNCHANGED walkVars

Template ==
    /\ pc = "template"
    /\ \E ok \in BOOLEAN :
       \E r \in {template(chart.Name, chartFile, chart.Values, chart.Namespace,
                         chart.SkipCRDs, chart.OutputDir, chart.ApiVersions, ok)} :
         Return("template", r.err, chart, r.calls, r.lines)
    /\ UNCHANGED <<file, clean, username, password, viperPassword, chart,
                   chartFile, removed, created>>
    /\ UNCHANGED walkVars

\* the generateKustomization hook as HelmTemplate sees it: os.Create may
\* fail (nothing is created), the walk may fail (the file exists), or both
\* succeed
GenerateKustomization ==
    /\ pc = "generateKustomization"
    /\ \E outcome \in {"ok", "createfail", "walkfail"} :
         /\ created' = IF outcome = "createfail" THEN created
                       ELSE created \cup {KustomizationPath(KustomizationDir(chart))}
         /\ Return("generateKustomization",
                   IF outcome = "ok" THEN Nil ELSE Err(outcome, {}, S_empty),
                   chart,
                   <<Call("generateKustomization", <<KustomizationDir(chart)>>,
                          outcome = "ok", <<>>)>>,
                   <<>>)
    /\ UNCHANGED <<file, clean, username, password, viperPassword, chart,
                   chartFile, removed>>
    /\ UNCHANGED walkVars

Next ==
    \/ ReadParameters
    \/ Version
    \/ Fetch
    \/ RemoveOutput
    \/ Template
    \/ GenerateKustomization

----------------------------------------------------------------------------
(* Initial states.                                                         *)

\* the files HelmTemplate may be given: unreadable, malformed, or decoding
\* to one of docs
Files(docs) ==
    {[read |-> "unreadable", doc |-> NoChart], [read |-> "malformed", doc |-> NoChart]}
    \cup {[read |-> "ok", doc |-> d] : d \in docs}

\* one call of HelmTemplate: the file, the clean flag, the credentials, and
\* the password the configuration holds
Input(f, cl, user, pw, vp) ==
    [file |-> f, clean |-> cl, username |-> user, password |-> pw,
     viperPassword |-> vp]

\* the state before HelmTemplate's first statement
PipelineInit(inputs) ==
    /\ pc = "readParameters"
    /\ \E in \in inputs :
         /\ file = in.file
         /\ clean = in.clean
         /\ username = in.username
         /\ password = in.password
         /\ viperPassword = in.viperPassword
    /\ chart = NoChart
    /\ chartFile = S_empty
    /\ result = Pending
    /\ stages = <<>>
    /\ calls = <<>>
    /\ log = <<>>
    /\ removed = {}
    /\ created = {}
    /\ directory = S_dot
    /\ tree = {}
    /\ kust = <<>>
    /\ kustErr = Nil
    /\ streak = 0

\* descriptors for the control flow: every required field present or not
FlowDocs ==
    {HelmChart(c, v, r, n, S_empty, <<>>, FALSE, gk, od, <<>>) :
        c \in {S_empty, <<"c">>}, v \in {S_empty, <<"1">>},
        r \in {S_empty, <<"r">>}, n \in {S_empty, <<"n">>},
        gk \in BOOLEAN, od \in {S_empty, <<"o">>, <<"c">>}}

FlowInputs ==
    {Input(f, cl, <<"u">>, <<"9">>, <<"9">>) : f \in Files(FlowDocs), cl \in BOOLEAN}

Init == PipelineInit(FlowInputs)

Spec == Init /\ [][Next]_vars

----------------------------------------------------------------------------
(* generateKustomizationCommand over a directory tree.                     *)
(*                                                                         *)
(* tree is the set of entries below directory: each has its path, as the   *)
(* sequence of names leading to it, and its kind as os.Lstat reports it:   *)
(* a regular file, a directory, or something else (a symbolic link).       *)
(* kust is the content of directory/kustomization.yaml as a sequence of    *)
(* lines, each written by one WriteString.                                 *)

\* the characters of the model in byte order
Alphabet == <<" ", "-", ".", "/", "0", "1", "2", "3", "4", "5", "6", "7", "8", "9", ":", "_", "a", "b", "c", "d", "e", "f", "g", "h", "i", "j", "k", "l", "m", "n", "o", "p", "q", "r", "s", "t", "u", "v", "w", "x", "y", "z">>

Ord(c) == CHOOSE i \in 1..Len(Alphabet) : Alphabet[i] = c

RECURSIVE StringLess(_, _)
\* Go's s < t on strings: bytewise lexicographic
StringLess(s, t) ==
    IF t = <<>> THEN FALSE
    ELSE IF s = <<>> THEN TRUE
    ELSE IF Head(s) # Head(t) THEN Ord(Head(s)) < Ord(Head(t))
    ELSE StringLess(Tail(s), Tail(t))

RECURSIVE SortStrings(_)
\* sort.Strings over a set of names
SortStrings(S) ==
    IF S = {} THEN <<>>
    ELSE LET m == CHOOSE x \in S : \A y \in S \ {x} : StringLess(x, y)
         IN <<m>> \o SortStrings(S \ {m})

\* filepath.Rel(base, targ) for relative, clean-able paths: the components
\* of targ after the common prefix, preceded by one ".." per remaining
\* component of base; "." when nothing is left
Rel(base, targ) ==
    LET comps(p) == IF Clean(p) = S_dot THEN <<>> ELSE Split(Clean(p), "/")
        b == comps(base)
        t == comps(targ)
        common == CHOOSE k \in 0..Len(b) :
                     /\ k <= Len(t)
                     /\ SubSeq(b, 1, k) = SubSeq(t, 1, k)
                     /\ (k < Len(b) /\ k < Len(t)) => b[k + 1] # t[k + 1]
        ups == [i \in 1..(Len(b) - common) |-> S_dotdot]
        rest == ups \o SubSeq(t, common + 1, Len(t))
    IN IF rest = <<>> THEN S_dot ELSE Join(rest, S_slash)

\* the header generateKustomizationCommand writes first (lines 201-204)
Header == <<S_header_apiVersion, S_header_kind, S_header_resources>>

\* the names readDirNames lists for the directory at path p
NamesIn(t, p) ==
    {e.path[Len(p) + 1] : e \in {x \in t : Len(x.path) = Len(p) + 1
                                           /\ SubSeq(x.path, 1, Len(p)) = p}}

\* the entry of t at path p
EntryAt(t, p) == CHOOSE e \in t : e.path = p

RECURSIVE WalkNames(_, _, _)
RECURSIVE Walk(_, _)
\* filepath.Walk below the directory at p: the entries in the order the
\* callback sees them; names sorted, a directory before its children
Walk(t, p) == WalkNames(t, p, SortStrings(NamesIn(t, p)))

WalkNames(t, p, names) ==
    IF names = <<>> THEN <<>>
    ELSE LET e == EntryAt(t, Append(p, Head(names)))
         IN <<e>> \o (IF e.kind = "dir" THEN Walk(t, e.path) ELSE <<>>)
                \o WalkNames(t, p, Tail(names))

\* the path filepath.Walk hands to the callback for entry e
WalkPath(dir, e) == PathJoin(dir, Join(e.path, S_slash))

RECURSIVE Resources_skipByName(_, _)
\* the callback skipping every file named kustomization.yaml, wherever
Resources_skipByName(dir, visited) ==
    IF visited = <<>> THEN <<>>
    ELSE LET e == Head(visited)
             rel == Rel(dir, WalkPath(dir, e))
         IN IF e.kind = "dir" THEN Resources_skipByName(dir, Tail(visited))
            ELSE IF e.path[Len(e.path)] = S_kustomization_yaml
                 THEN Resources_skipByName(dir, Tail(visited))
            ELSE <<S_item \o rel>> \o Resources_skipByName(dir, Tail(visited))

RECURSIVE Resources(_, _)
\* the callback (lines 209-229) over the visited entries: the lines written
Resources(dir, visited) ==
    IF visited = <<>> THEN <<>>
    ELSE LET e == Head(visited)
             rel == Rel(dir, WalkPath(dir, e))
         IN IF e.kind = "dir" THEN Resources(dir, Tail(visited))
            ELSE IF rel = S_kustomization_yaml THEN Resources(dir, Tail(visited))
            ELSE <<S_item \o rel>> \o Resources(dir, Tail(visited))

\* the file opened for appending instead: what it held stays
osCreate_append(old) == old

\* os.Create(name) on a file holding old: it is truncated
osCreate(old) == <<>>

\* the entry of directory/kustomization.yaml
KustEntry(kind) == [path |-> <<S_kustomization_yaml>>, kind |-> kind]

\* generateKustomizationCommand(directory).  env: whether os.Create fails,
\* whether the header's WriteString fails, and after how many written
\* resource lines the walk fails (-1: it does not).
generateKustomizationCommand(dir, t, old, env) ==
    IF env.createFails \/ KustEntry("dir") \in t
    THEN [tree |-> t, kust |-> old, err |-> Err("create", {}, S_empty)]
    ELSE
    LET t1 == IF KustEntry("link") \in t THEN t ELSE t \cup {KustEntry("file")}
        k0 == osCreate(old)
        all == Resources(dir, <<[path |-> <<>>, kind |-> "dir"]>> \o Walk(t1, <<>>))
    IN IF env.headerFails
       THEN [tree |-> t1, kust |-> k0, err |-> Err("write", {}, S_empty)]
       ELSE IF env.walkFailsAt >= 0 /\ env.walkFailsAt < Len(all)
       THEN [tree |-> t1, kust |-> k0 \o Header \o SubSeq(all, 1, env.walkFailsAt),
             err |-> Err("walk", {}, S_empty)]
       ELSE [tree |-> t1, kust |-> k0 \o Header \o all, err |-> Nil]

\* the names the renderer, or anyone else, may give an entry
Names == {S_a_yaml, S_b_yaml, S_sub, S_kustomization_yaml}

\* the kinds of entry os.Lstat tells apart for the callback, per name: a
\* manifest is a regular file or a symbolic link, sub a directory or a
\* symbolic link, kustomization.yaml any of the three
Kinds(n) ==
    IF n = S_sub THEN {"dir", "link"}
    ELSE IF n = S_kustomization_yaml THEN {"file", "dir", "link"}
    ELSE {"file", "link"}

\* the entries of t other than directory/kustomization.yaml
Others(t) == {e \in t : e.path # <<S_kustomization_yaml>>}

\* someone writes a new entry below directory
WriteEntry ==
    /\ Cardinality(Others(tree)) < MaxEntries
    /\ \E parent \in {<<>>} \cup {e.path : e \in {x \in tree : x.kind = "dir"}} :
       \E n \in Names : \E k \in Kinds(n) :
         LET p == Append(parent, n) IN
         /\ \A e \in tree : e.path # p
         /\ tree' = tree \cup {[path |-> p, kind |-> k]}
         /\ kust' = IF p = <<S_kustomization_yaml>> /\ k # "dir"
                    THEN <<S_sub>> ELSE kust
    /\ streak' = 0
    /\ UNCHANGED <<directory, kustErr>>
    /\ UNCHANGED pipelineVars

\* what may go wrong in one run of generateKustomizationCommand
WalkEnvs ==
    {[createFails |-> TRUE, headerFails |-> FALSE, walkFailsAt |-> -1],
     [createFails |-> FALSE, headerFails |-> TRUE, walkFailsAt |-> -1]}
    \cup {[createFails |-> FALSE, headerFails |-> FALSE, walkFailsAt |-> k] :
             k \in -1..(MaxEntries - 1)}

\* one run of generateKustomizationCommand(directory)
RunGenerate ==
    /\ \E env \in WalkEnvs :
       \E r \in {generateKustomizationCommand(directory, tree, kust, env)} :
         /\ tree' = r.tree
         /\ kust' = r.kust
         /\ kustErr' = r.err
         /\ streak' = IF r.err # Nil THEN 0
                      ELSE IF streak < MaxStreak THEN streak + 1 ELSE streak
    /\ UNCHANGED directory
    /\ UNCHANGED pipelineVars

WalkNext ==
    \/ WriteEntry
    \/ RunGenerate

\* the directories generateKustomizationCommand is run on
Directories == {S_dot, <<"c">>}

WalkInit ==
    /\ pc = "done"
    /\ file = [read |-> "unreadable", doc |-> NoChart]
    /\ clean = FALSE
    /\ username = S_empty
    /\ password = S_empty
    /\ viperPassword = S_empty
    /\ chart = NoChart
    /\ chartFile = S_empty
    /\ result = Nil
    /\ stages = <<>>
    /\ calls = <<>>
    /\ log = <<>>
    /\ removed = {}
    /\ created = {}
    /\ directory \in Directories
    /\ tree = {}
    /\ kust = <<>>
    /\ kustErr = Nil
    /\ streak = 0

SpecWalk == WalkInit /\ [][WalkNext]_vars

----------------------------------------------------------------------------
(* Properties of generateKustomizationCommand.                             *)

\* the resource entries of kust: the lines after the header, without the
\* list marker
Listed ==
    [i \in 1..(Len(kust) - Len(Header)) |->
        SubSeq(kust[i + Len(Header)], Len(S_item) + 1, Len(kust[i + Len(Header)]))]

\* the path of entry e relative to directory
RelPath(e) == Join(e.path, S_slash)

\* the tree of the example: a.yaml and sub/b.yaml, and the file written
ExampleTree ==
    {[path |-> <<S_a_yaml>>, kind |-> "file"],
     [path |-> <<S_sub>>, kind |-> "dir"],
     [path |-> <<S_sub, S_b_yaml>>, kind |-> "file"],
     [path |-> <<S_kustomization_yaml>>, kind |-> "file"]}

\* kust is the header followed by one well-formed line per resource
WellFormed ==
    /\ Len(kust) >= Len(Header)
    /\ SubSeq(kust, 1, Len(Header)) = Header
    /\ \A i \in (Len(Header) + 1)..Len(kust) : HasPrefix(kust[i], S_item)

\* C8 as claimed: after a successful run the resources are exactly the
\* regular files of the tree, each once, by relative path, without the
\* root's kustomization.yaml.
C8_Original_RegularFiles ==
    (streak >= 1) =>
        /\ WellFormed
        /\ {Listed[i] : i \in 1..Len(Listed)} =
              {RelPath(e) : e \in {x \in Others(tree) : x.kind = "file"}}
        /\ Len(Listed) = Cardinality({Listed[i] : i \in 1..Len(Listed)})

\* C8 as amended: after a successful run the resources are exactly the
\* entries of the tree that are not directories (regular files, and
\* symbolic links and other special files as well), each once, by relative
\* path; no directory is listed, the root's kustomization.yaml is not, a
\* kustomization.yaml in a subdirectory is; the tree {a.yaml, sub/b.yaml}
\* lists exactly a.yaml and sub/b.yaml.
C8_NonDirectories ==
    (streak >= 1) =>
        /\ WellFormed
        /\ {Listed[i] : i \in 1..Len(Listed)} =
              {RelPath(e) : e \in {x \in Others(tree) : x.kind # "dir"}}
        /\ Len(Listed) = Cardinality({Listed[i] : i \in 1..Len(Listed)})
        /\ tree = ExampleTree => Listed = <<S_a_yaml, S_sub \o S_slash \o S_b_yaml>>

\* C8 witness: a successful run over the example tree with a
\* kustomization.yaml in the subdirectory instead of b.yaml
C8_Witness ==
    /\ streak >= 1
    /\ [path |-> <<S_sub, S_kustomization_yaml>>, kind |-> "file"] \in tree
    /\ [path |-> <<S_a_yaml>>, kind |-> "file"] \in tree
    /\ Len(Listed) = 2

RECURSIVE PathLess(_, _)
\* p comes before q in a walk that sorts the names of each directory: the
\* first component in which they differ decides
PathLess(p, q) ==
    IF p = <<>> THEN q # <<>>
    ELSE IF q = <<>> THEN FALSE
    ELSE IF Head(p) # Head(q) THEN StringLess(Head(p), Head(q))
    ELSE PathLess(Tail(p), Tail(q))

\* the resources are listed in walk order: lexical per directory level,
\* depth-first
ListedInWalkOrder ==
    (streak >= 1) =>
        \A i \in 1..(Len(Listed) - 1) :
            PathLess(Split(Listed[i], "/"), Split(Listed[i + 1], "/"))

\* a successful run on a tree unchanged since the last successful run
\* leaves kustomization.yaml, and the tree, as they were
RerunChangesNothing ==
    (streak >= 1 /\ streak' >= 1) => (kust' = kust /\ tree' = tree)

\* C9: generateKustomizationCommand is idempotent and its output ordered:
\* a second run in a row writes the content the first wrote, and the
\* resources are always listed in walk order (names sorted per directory,
\* depth-first).
C9_IdempotentOrdered == [](ListedInWalkOrder) /\ [][RerunChangesNothing]_vars

\* C9 witness: two successful runs in a row over the example tree, which
\* also held a stale kustomization.yaml before
C9_Witness ==
    /\ streak = 2
    /\ tree = ExampleTree
    /\ Listed = <<S_a_yaml, S_sub \o S_slash \o S_b_yaml>>

----------------------------------------------------------------------------
(* Properties of the pipeline's control flow.                              *)

\* the names of the stages entered so far, in order
StageNames == [i \in 1..Len(stages) |-> stages[i].stage]

\* the hook invocations of kind fn so far, in order
CallsOf(fn) == SelectSeq(calls, LAMBDA c : c.fn = fn)

\* stage st was entered and returned a nil error
Succeeded(st) == \E i \in 1..Len(stages) : stages[i].stage = st /\ stages[i].err = Nil

\* the stages of a run in which nothing fails
FullRun ==
    <<"readParameters", "HelmVersion", "fetch">>
    \o (IF clean THEN <<"removeOutput">> ELSE <<>>)
    \o <<"template">>
    \o (IF file.doc.PostProcess.GenerateKustomization
        THEN <<"generateKustomization">> ELSE <<>>)

\* the descriptor the file decodes to lacks a required field
DocIncomplete ==
    \/ file.doc.Chart = S_empty
    \/ file.doc.Version = S_empty
    \/ file.doc.Repository = S_empty
    \/ file.doc.Name = S_empty

\* C2: the stages run in the fixed order readParameters, HelmVersion, fetch,
\* [removeOutput], template, [generateKustomization]; a stage that returns
\* an error is the last one entered, HelmTemplate returns that very error,
\* and the hooks called are only those of the stages entered.
C2_FailFast ==
    /\ Len(stages) <= Len(FullRun)
    /\ StageNames = SubSeq(FullRun, 1, Len(stages))
    /\ \A i \in 1..(Len(stages) - 1) : stages[i].err = Nil
    /\ (stages # <<>> /\ stages[Len(stages)].err # Nil) =>
          (pc = "done" /\ result = stages[Len(stages)].err)
    /\ (pc = "done" /\ result = Nil) => StageNames = FullRun
    /\ pc = "done" <=> result # Pending
    /\ Len(CallsOf("removeOutput")) =
          Cardinality({i \in 1..Len(stages) : stages[i].stage = "removeOutput"})
    /\ Len(CallsOf("generateKustomization")) =
          Cardinality({i \in 1..Len(stages) : stages[i].stage = "generateKustomization"})
    /\ Len(CallsOf("execute")) <=
          Cardinality({i \in 1..Len(stages) :
                          stages[i].stage \in {"HelmVersion", "fetch", "template"}})

\* C2 witness: the fetch failed in a run that was to clean and to generate
\* a kustomization, and nothing ran after it
C2_Witness ==
    /\ pc = "done"
    /\ clean
    /\ file.doc.PostProcess.GenerateKustomization
    /\ StageNames = <<"readParameters", "HelmVersion", "fetch">>
    /\ result.kind = "exit"

\* C3: a descriptor lacking one of chart, version, repository, name makes
\* readParameters return a validation error naming the missing fields;
\* HelmTemplate returns it and calls no hook: no command is run, no
\* temporary directory made, nothing removed or created.
C3_InvalidDescriptorStops ==
    (file.read = "ok" /\ DocIncomplete /\ pc # "readParameters") =>
        /\ pc = "done"
        /\ result.kind = "validation"
        /\ result.fields = {f \in Required : file.doc[f] = S_empty}
        /\ StageNames = <<"readParameters">>
        /\ calls = <<>>
        /\ log = <<>>
        /\ removed = {}
        /\ created = {}

\* C3 witness: only the name is missing, and HelmTemplate has returned
C3_Witness ==
    /\ pc = "done"
    /\ file.read = "ok"
    /\ file.doc.Name = S_empty
    /\ file.doc.Chart # S_empty /\ file.doc.Version # S_empty
    /\ file.doc.Repository # S_empty
    /\ result.kind = "validation"

\* C4: once helm fetch succeeded and the temporary directory was listed,
\* a listing of zero or several entries makes fetch return an empty path
\* and an error naming the directory, and no removeOutput, template or
\* generateKustomization follows; a path is returned only for a listing of
\* exactly one entry, and it is the directory joined with that entry.
C4_ExactlyOneArtifact ==
    /\ \A i \in 1..Len(calls) :
          (calls[i].fn = "dirContent" /\ calls[i].ok) =>
             IF Len(calls[i].ret) # 1
             THEN /\ pc = "done"
                  /\ result.kind = "unexpected content"
                  /\ result.dir = calls[i].args[1]
                  /\ chartFile = S_empty
                  /\ Len(calls) = i
                  /\ removed = {} /\ created = {}
                  /\ StageNames = <<"readParameters", "HelmVersion", "fetch">>
             ELSE /\ chartFile = calls[i].args[1] \o S_slash \o calls[i].ret[1]
                  /\ Succeeded("fetch")
    /\ chartFile # S_empty =>
          \E i \in 1..Len(calls) :
             calls[i].fn = "dirContent" /\ calls[i].ok /\ Len(calls[i].ret) = 1
    /\ \A i \in 1..Len(calls) :
          calls[i].fn = "dirContent" =>
             /\ calls[i - 2].fn = "tempDir"
             /\ calls[i].args = calls[i - 2].ret

\* C4 witness: the temporary directory held two entries
C4_Witness ==
    /\ pc = "done"
    /\ \E i \in 1..Len(calls) :
          calls[i].fn = "dirContent" /\ calls[i].ok /\ Len(calls[i].ret) = 2
    /\ result.kind = "unexpected content"

C10_OptionalStages ==
    /\ pc = "done" =>
          /\ Len(CallsOf("removeOutput")) = (IF clean /\ Succeeded("fetch") THEN 1 ELSE 0)
          /\ Len(CallsOf("generateKustomization")) =
                (IF file.doc.PostProcess.GenerateKustomization /\ Succeeded("template")
                 THEN 1 ELSE 0)
    /\ \A i \in 1..Len(calls) :
          calls[i].fn = "removeOutput" => calls[i].args = <<file.doc.Chart>>
    /\ removed = {c.args[1] : c \in {calls[i] : i \in {j \in 1..Len(calls) :
                                                  calls[j].fn = "removeOutput"}}}
    /\ ~clean => removed = {}
    /\ ~Succeeded("fetch") => removed = {}
    /\ (file.read = "ok" /\ ~file.doc.PostProcess.GenerateKustomization) => created = {}
    /\ ~Succeeded("template") => created = {}
    /\ created # {} => Len(CallsOf("generateKustomization")) = 1

\* C10 witness: a run with both flags set went through both optional stages
C10_Witness ==
    /\ pc = "done"
    /\ clean
    /\ removed = {<<"c">>}
    /\ created # {}
    /\ result = Nil

----------------------------------------------------------------------------
(* The renderer's argument list.                                           *)

\* descriptors for the renderer: every optional field of the render stage
\* set or not, and the descriptor of the end-to-end scenario
RenderDocs ==
    {HelmChart(<<"c">>, <<"1">>, <<"r">>, <<"n">>, ns, vals, skip, FALSE, od, api) :
        ns \in {S_empty, <<"s">>},
        vals \in SeqsUpTo({<<"v">>, <<"w">>}, MaxValues),
        skip \in BOOLEAN,
        od \in {S_empty, <<"o", "u", "t">>},
        api \in SeqsUpTo({<<"a">>, <<"b">>}, MaxApiVersions)}
    \cup {HelmChart(S_nginx, S_1_2_3, S_example_repo, S_web, S_empty, <<>>,
                    FALSE, FALSE, S_empty, <<>>)}

\* a few runs that go through the optional stages and the failing loads
SmokeInputs ==
    {Input(f, TRUE, <<"u">>, <<"9">>, <<"9">>) :
        f \in Files({HelmChart(<<"c">>, <<"1">>, <<"r">>, n, S_empty, <<>>, FALSE,
                               TRUE, S_empty, <<>>) : n \in {S_empty, <<"n">>}})}

RenderInputs ==
    {Input([read |-> "ok", doc |-> d], FALSE, S_empty, S_empty, S_empty) :
        d \in RenderDocs}
    \cup SmokeInputs

InitRender == PipelineInit(RenderInputs)

SpecRender == InitRender /\ [][Next]_vars

\* the pairs flag, list[1], flag, list[2], ... by position
Pairs(flag, list) ==
    [i \in 1..(2 * Len(list)) |-> IF i % 2 = 1 THEN flag ELSE list[i \div 2]]

\* the argument list the claim describes for descriptor d and artifact path
ClaimedTemplateArgs(d, path) ==
    <<S_template, d.Name, path>>
    \o (IF d.Namespace # S_empty THEN <<S_namespace, d.Namespace>> ELSE <<>>)
    \o (IF d.SkipCRDs = FALSE THEN <<S_include_crds>> ELSE <<>>)
    \o <<S_skip_tests>>
    \o Pairs(S_values, d.Values)
    \o <<S_output_dir, IF d.OutputDir = S_empty THEN S_dot ELSE d.OutputDir>>
    \o Pairs(S_api_versions, d.ApiVersions)

\* the execute calls whose first argument is sub
CommandCalls(sub) ==
    SelectSeq(calls, LAMBDA c : c.fn = "execute" /\ c.args[1] = sub)

\* C6: the argument list template hands to execute is template, name, path,
\* [--namespace ns], [--include-crds], --skip-tests, (--values f)*,
\* --output-dir d, (--api-versions v)*, with d "." for an empty outputDir;
\* the scenario's descriptor gives template web <path> --include-crds
\* --skip-tests --output-dir .
C6_TemplateArgs ==
    /\ Len(CommandCalls(S_template)) =
          (IF \E i \in 1..Len(stages) : stages[i].stage = "template" THEN 1 ELSE 0)
    /\ \A i \in 1..Len(CommandCalls(S_template)) :
          CommandCalls(S_template)[i].args = ClaimedTemplateArgs(file.doc, chartFile)
    /\ (file.doc.Chart = S_nginx /\ CommandCalls(S_template) # <<>>) =>
          CommandCalls(S_template)[1].args =
             <<S_template, S_web, chartFile, S_include_crds, S_skip_tests,
               S_output_dir, S_dot>>

\* C6 witness: a render with a namespace, two values files, CRDs skipped,
\* an output directory and two API versions
C6_Witness ==
    /\ CommandCalls(S_template) # <<>>
    /\ file.doc.Namespace # S_empty
    /\ file.doc.Values = <<<<"w">>, <<"v">>>>
    /\ file.doc.SkipCRDs
    /\ file.doc.OutputDir # S_empty
    /\ file.doc.ApiVersions = <<<<"b">>, <<"a">>>>

----------------------------------------------------------------------------
(* Credentials: the fetch argument list and the lines execCommand prints.  *)

\* descriptors whose repository or chart may spell the password
CredentialDocs ==
    {HelmChart(c, <<"1">>, r, <<"n">>, S_empty, <<>>, FALSE, FALSE, S_empty, <<>>) :
        c \in {<<"c">>, <<"9">>}, r \in {<<"r">>, <<"r", "9">>}}

CredentialInputs ==
    {Input([read |-> "ok", doc |-> d], FALSE, user, pw, vp) :
        d \in CredentialDocs,
        user \in {S_empty, <<"u">>, <<"9">>},
        pw \in {S_empty, <<"9">>, <<"9", "8">>},
        vp \in {S_empty, <<"9">>, <<"9", "8">>}}
    \cup SmokeInputs

InitCredentials == PipelineInit(CredentialInputs)

SpecCredentials == InitCredentials /\ [][Next]_vars

\* the directory the tempDir hook returned
MadeTempDir == CallsOf("tempDir")[1].ret[1]

\* C7: the argument list fetch hands to execute is fetch, --repo
\* repository, --version version, --destination <the new temporary
\* directory>, [--username username], [--password password], chart; each
\* credential flag is present iff its own value is non-empty.
C7_FetchArgs ==
    /\ Len(CommandCalls(S_fetch)) =
          (IF \E i \in 1..Len(calls) : calls[i].fn = "tempDir" /\ calls[i].ok
           THEN 1 ELSE 0)
    /\ \A i \in 1..Len(CommandCalls(S_fetch)) :
          CommandCalls(S_fetch)[i].args =
              <<S_fetch, S_repo, file.doc.Repository, S_version_flag,
                file.doc.Version, S_destination, MadeTempDir>>
              \o (IF username # S_empty THEN <<S_username, username>> ELSE <<>>)
              \o (IF password # S_empty THEN <<S_password, password>> ELSE <<>>)
              \o <<file.doc.Chart>>

\* C7 witness: a fetch with a password and no username
C7_Witness ==
    /\ CommandCalls(S_fetch) # <<>>
    /\ username = S_empty
    /\ password = <<"9", "8">>

\* C1: no line execCommand prints contains the password given to
\* HelmTemplate, wherever it stands in the argument list and however often.
C1_NoSecretInLog ==
    password # S_empty => \A i \in 1..Len(log) : ~Contains(log[i], password)

====
